---- MODULE Spec2Model ----
(***************************************************************************)
(* Model of the particle detection pipeline of DotImageDeal (src/main.py): *)
(* mark_dark_particles_adaptive (Flat), mark_dark_particles_gradient       *)
(* (Gradient) and mark_particles_with_clustering (Clustered).              *)
(*                                                                         *)
(* Arrays are functions over 0-based <<row, column>> positions, as numpy   *)
(* indexes them.  Floating point fields are kept as exact fractions: a     *)
(* sensitivity is counted in halves (0, 1, 2 for 0.0, 0.5, 1.0), the       *)
(* blurred background is a numerator over KSum(sigma)^2, and a percentage  *)
(* is the pair <<numerator, denominator>>.                                 *)
(***************************************************************************)
EXTENDS Integers, Sequences, FiniteSets, TLC

\* ------------------------------------------------------------------ bounds
ImgW == 3               \* width of the input images
ImgH == 3               \* height of the input images
MaxBorder == 1          \* border_width ranges over 0..MaxBorder
MaxMinSize == 2         \* min_particle_size ranges over 0..MaxMinSize
MaxMaxSize == 1         \* max_particle_size is None or in 1..MaxMaxSize
LabelW == 5             \* the image label is LabelW by LabelH or LabelH by LabelW
LabelH == 2

\* ----------------------------------------------------------------- helpers
None == <<>>            \* Python's None for an optional argument

\* gui.py 87: a child widget starts with the geometry (0, 0, 100, 30)
DefaultGeometry == <<0, 0, 99, 29>>

Pos(h, w) == (0 .. (h - 1)) \X (0 .. (w - 1))

Max2(a, b) == IF a >= b THEN a ELSE b
Min2(a, b) == IF a <= b THEN a ELSE b

\* A numpy array holds its elements: the function f, evaluated once (TLC
\* evaluates a function expression anew at every application, and evaluates
\* it as a whole when it is compared).
AsArray(f) == IF f = f THEN f ELSE [p \in DOMAIN f |-> f[p]]

RECURSIVE SumOver(_, _)
SumOver(S, f) ==
    IF S = {} THEN 0
    ELSE LET e == CHOOSE e \in S : TRUE IN f[e] + SumOver(S \ {e}, f)

\* ------------------------------------------------------------ image ingest
\* Pillow's paste through an 8 bit mask: DIV255(in1*(255-mask) + in2*mask).
Blend(under, over, m) ==
    LET t == under * (255 - m) + over * m + 128
    IN  ((t \div 256) + t) \div 256

\* lines 38-44: an RGBA image is pasted on a white canvas, any other mode is
\* converted to RGB (convert drops an alpha band, an L value fills all bands).
ToRGB(im) ==
    IF im.mode = "RGBA"
    THEN [size |-> im.size,
          px |-> [p \in DOMAIN im.px |->
                    <<Blend(255, im.px[p][1], im.px[p][4]),
                      Blend(255, im.px[p][2], im.px[p][4]),
                      Blend(255, im.px[p][3], im.px[p][4])>>]]
    ELSE [size |-> im.size,
          px |-> [p \in DOMAIN im.px |->
                    IF im.mode = "RGB" THEN im.px[p]
                    ELSE <<im.px[p][1], im.px[p][1], im.px[p][1]>>]]

\* lines 46-50: img.crop(selection_box) or the whole image; a box is
\* <<left, top, right, bottom>>, an image size is <<width, height>>.
Crop(im, selection_box) ==
    IF selection_box # None
    THEN LET l == selection_box[1]
             t == selection_box[2]
             w == selection_box[3] - l
             h == selection_box[4] - t
         IN  [size |-> <<w, h>>,
              px |-> [p \in Pos(h, w) |-> im.px[<<p[1] + t, p[2] + l>>]]]
    ELSE im

\* Pillow's convert('L'): ITU-R 601-2 luma in 16 bit fixed point.
Luma(c) == (c[1] * 19595 + c[2] * 38470 + c[3] * 7471 + 32768) \div 65536

GrayArray(im) == AsArray([p \in DOMAIN im.px |-> Luma(im.px[p])])

\* ------------------------------------------------- background and thresholds
\* scipy's Gaussian kernel exp(-x^2 / (2 sigma^2)), x = 0 .. int(4 sigma + 0.5),
\* rounded to tenths; the filter divides by the sum of the weights.
GaussKernel(sigma) ==
    CASE sigma = 1 -> <<10, 6, 1, 0, 0>>
      [] sigma = 2 -> <<10, 9, 6, 3, 1, 0, 0, 0, 0>>
      [] OTHER     -> <<10, 9, 8, 6, 4, 2, 1, 1, 0, 0, 0, 0, 0>>

KRadius(sigma) == Len(GaussKernel(sigma)) - 1

KWeight(sigma, d) == GaussKernel(sigma)[(IF d < 0 THEN -d ELSE d) + 1]

\* the largest offset with a weight that is not zero
KReach(sigma) ==
    CHOOSE d \in 0 .. KRadius(sigma) :
        /\ KWeight(sigma, d) # 0
        /\ \A e \in (d + 1) .. KRadius(sigma) : KWeight(sigma, e) = 0

RECURSIVE KSumFrom(_, _)
KSumFrom(sigma, d) ==
    IF d > KReach(sigma) THEN 0 ELSE KWeight(sigma, d) + KSumFrom(sigma, d + 1)

KSum(sigma) == KSumFrom(sigma, -KReach(sigma))

\* mode='reflect': (d c b a | a b c d | d c b a)
Reflect(i, n) ==
    LET m == i % (2 * n) IN IF m < n THEN m ELSE 2 * n - 1 - m

\* correlate1d along one axis at position p: the weighted sum over the offsets d..reach
RECURSIVE Correlate(_, _, _, _, _, _, _)
Correlate(a, p, axis, n, sigma, d, reach) ==
    IF d > reach THEN 0
    ELSE KWeight(sigma, d)
            * a[IF axis = 0 THEN <<Reflect(p[1] + d, n), p[2]>>
                ELSE <<p[1], Reflect(p[2] + d, n)>>]
         + Correlate(a, p, axis, n, sigma, d + 1, reach)

GaussianPass(a, axis, n, sigma) ==
    LET reach == KReach(sigma)
    IN  AsArray([p \in DOMAIN a |-> Correlate(a, p, axis, n, sigma, -reach, reach)])

\* gaussian_filter(gray, sigma): one pass per axis; the result is the
\* numerator of the blurred value over KSum(sigma)^2.
GaussianFilter(gray, h, w, sigma) ==
    GaussianPass(GaussianPass(gray, 0, h, sigma), 1, w, sigma)

\* Common denominator of gray, threshold_low and threshold_high.
ThrDen(sigma) == KSum(sigma) * KSum(sigma) * 4

\* the sensitivity itself taken as the factor: background * sensitivity
Threshold_FactorIsSensitivity(background, s) ==
    [p \in DOMAIN background |-> background[p] * (2 * s)]

\* lines 60-64: background * (0.5 + 0.5 * sensitivity), as a numerator over
\* ThrDen: with s halves, 0.5 + 0.5 * s/2 = (2 + s)/4.
Threshold(background, s) ==
    AsArray([p \in DOMAIN background |-> background[p] * (2 + s)])

\* a single cutoff: every pixel darker than threshold_high
InitialMask_NoLowerCut(gray, low, high, sigma) ==
    LET den == ThrDen(sigma)
    IN  [p \in DOMAIN gray |-> gray[p] * den < high[p]]

\* lines 68-70: gray < threshold_high and gray >= threshold_low.
InitialMask(gray, low, high, sigma) ==
    LET den == ThrDen(sigma)
    IN  AsArray([p \in DOMAIN gray |-> gray[p] * den < high[p] /\ gray[p] * den >= low[p]])

\* --------------------------------------------------- connected components
\* diagonal neighbours connected too
Adjacent_8(p, q) ==
    /\ p # q
    /\ p[1] - q[1] \in {-1, 0, 1}
    /\ p[2] - q[2] \in {-1, 0, 1}

\* line 76: neighbours along one axis (label's default structure)
Adjacent(p, q) ==
    \/ p[1] = q[1] /\ (p[2] = q[2] + 1 \/ q[2] = p[2] + 1)
    \/ p[2] = q[2] /\ (p[1] = q[1] + 1 \/ q[1] = p[1] + 1)

RECURSIVE Grow(_, _)
Grow(S, M) ==
    LET N == {q \in M \ S : \E p \in S : Adjacent(p, q)}
    IN  IF N = {} THEN S ELSE Grow(S \cup N, M)

TruePixels(mask) == {p \in DOMAIN mask : mask[p]}

Components(M) == {Grow({p}, M) : p \in M}

Raster(p, w) == p[1] * w + p[2]

FirstPixel(C, w) == CHOOSE p \in C : \A q \in C : Raster(p, w) <= Raster(q, w)

\* scipy.ndimage.label with the default structuring element: 4-connected
\* components, numbered 1.. in the order the scan meets them.
Label(mask, w) ==
    LET comps == Components(TruePixels(mask))
        rank(C) == 1 + Cardinality({D \in comps :
                        Raster(FirstPixel(D, w), w) < Raster(FirstPixel(C, w), w)})
        byId == [i \in 1 .. Cardinality(comps) |-> CHOOSE C \in comps : rank(C) = i]
    IN  [array |-> AsArray([p \in DOMAIN mask |->
                              IF mask[p]
                              THEN CHOOSE i \in 1 .. Cardinality(comps) : p \in byId[i]
                              ELSE 0]),
         num |-> Cardinality(comps)]

\* ------------------------------------------------------------- size filter
\* np.bincount(labeled_array.ravel()): pixel count per label 0 .. max label;
\* the empty array has no label at all.
Bincount(labeled) ==
    IF DOMAIN labeled = {} THEN <<>>
    ELSE LET top == CHOOSE m \in {labeled[p] : p \in DOMAIN labeled} :
                        \A p \in DOMAIN labeled : labeled[p] <= m
         IN  [i \in 0 .. top |-> Cardinality({p \in DOMAIN labeled : labeled[p] = i})]

SizeFilterOn(min_particle_size, max_particle_size) ==
    min_particle_size > 0 \/ max_particle_size # None

\* the lower size bound taken strictly
SizeMask_StrictMin(particle_sizes, min_particle_size, max_particle_size) ==
    [i \in DOMAIN particle_sizes |->
        /\ i # 0
        /\ ~(min_particle_size > 0 /\ particle_sizes[i] <= min_particle_size)
        /\ ~(max_particle_size # None /\ particle_sizes[i] > max_particle_size[1])]

\* the lower size bound applied as an upper bound
SizeMask_MinAsMax(particle_sizes, min_particle_size, max_particle_size) ==
    [i \in DOMAIN particle_sizes |->
        /\ i # 0
        /\ ~(min_particle_size > 0 /\ particle_sizes[i] > min_particle_size)
        /\ ~(max_particle_size # None /\ particle_sizes[i] > max_particle_size[1])]

\* lines 82-87: size_mask over the labels; label 0 is the background.
SizeMask(particle_sizes, min_particle_size, max_particle_size) ==
    [i \in DOMAIN particle_sizes |->
        /\ i # 0
        /\ ~(min_particle_size > 0 /\ particle_sizes[i] < min_particle_size)
        /\ ~(max_particle_size # None /\ particle_sizes[i] > max_particle_size[1])]

\* lines 93-96: ~np.isin(labeled_array, np.where(~size_mask)[0])
FinalMask(labeled, size_mask) ==
    AsArray([p \in DOMAIN labeled |-> size_mask[labeled[p]]])

\* ------------------------------------------------------------- border mask
\* the right and bottom strips one pixel short
InBorder_ShortFarEdge(p, h, w, b) ==
    \/ p[1] < b
    \/ p[1] > h - b
    \/ p[2] < b
    \/ p[2] > w - b

\* lines 104-108: a[:b, :], a[-b:, :], a[:, :b], a[:, -b:] = clear
InBorder(p, h, w, b) ==
    \/ p[1] < b
    \/ p[1] >= h - b
    \/ p[2] < b
    \/ p[2] >= w - b

ClearBorder(a, h, w, border_width, clear) ==
    IF border_width > 0
    THEN AsArray([p \in DOMAIN a |-> IF InBorder(p, h, w, border_width) THEN clear ELSE a[p]])
    ELSE a

\* ---------------------------------------------------------------- colouring
\* only the red channel of a masked pixel set
FlatColors_RedChannelOnly(src, mask) ==
    [p \in DOMAIN src |-> IF mask[p] THEN <<255, src[p][2], src[p][3]>> ELSE src[p]]

\* line 112: result_array[mask] = [255, 0, 0]
FlatColors(src, mask) ==
    [p \in DOMAIN src |-> IF mask[p] THEN <<255, 0, 0>> ELSE src[p]]

\* the intensity measured from threshold_low: brighter pixels deeper red
RedChannel_FromLow(g, low, high, den) ==
    LET iden == Max2(high - low, 1)
        inum == g * den - low
        cnum == IF inum < 0 THEN 0 ELSE IF inum > iden THEN iden ELSE inum
    IN  100 + (155 * cnum) \div iden

\* lines 244-253: the red channel of a masked pixel.  low, high and
\* gray * den are numerators over den; 1e-5 is 1/100000.
RedChannel(g, low, high, den) ==
    LET inum  == high - g * den
        limit == (den - 1) \div 100000      \* high - low < 1e-5 iff high - low <= limit
    IN  IF high - low <= limit
        THEN \* denominator[denominator < 1e-5] = 1e-5
             IF inum <= 0 THEN 100
             ELSE IF inum > limit THEN 255
             ELSE 100 + (155 * inum * 100000) \div den
        ELSE LET iden == high - low
                 cnum == IF inum < 0 THEN 0 ELSE IF inum > iden THEN iden ELSE inum
             IN  100 + (155 * cnum) \div iden

\* line 260: result_array[mask] = gradient_colors
GradientColors(src, mask, gray, low, high, den) ==
    [p \in DOMAIN src |->
        IF mask[p] THEN <<RedChannel(gray[p], low[p], high[p], den), 0, 0>>
        ELSE src[p]]

\* --------------------------------------------------------------- clustering
\* line 373: np.unique(labeled_array)[1:], in increasing order
RECURSIVE SortedSeq(_)
SortedSeq(S) ==
    IF S = {} THEN <<>>
    ELSE LET m == CHOOSE m \in S : \A e \in S : m <= e
         IN  <<m>> \o SortedSeq(S \ {m})

\* np.unique(a): the background label kept among the particle labels
ParticleLabels_WithBackground(labeled) ==
    SortedSeq({labeled[p] : p \in DOMAIN labeled})

\* np.unique(a)[1:] drops the smallest value, whatever it is.
ParticleLabels(labeled) ==
    LET u == SortedSeq({labeled[p] : p \in DOMAIN labeled})
    IN  IF u = <<>> THEN <<>> ELSE Tail(u)

\* line 379: center_of_mass(initial_mask, labeled_array, particle_labels);
\* a centroid is <<sum of weighted rows, sum of weighted columns, sum of weights>>.
Centroid(weights, labeled, id) ==
    LET P == {p \in DOMAIN labeled : labeled[p] = id /\ weights[p]}
    IN  <<SumOver(P, [p \in P |-> p[1]]), SumOver(P, [p \in P |-> p[2]]), Cardinality(P)>>

Centroids(weights, labeled, ids) ==
    [i \in DOMAIN ids |-> Centroid(weights, labeled, ids[i])]

\* Euclidean distance of two centroids <= eps
Within(c, d, eps) ==
    LET dy == c[1] * d[3] - d[1] * c[3]
        dx == c[2] * d[3] - d[2] * c[3]
    IN  dy * dy + dx * dx <= eps * eps * c[3] * c[3] * d[3] * d[3]

Neighbours(cs, i, eps) == {j \in DOMAIN cs : Within(cs[i], cs[j], eps)}

\* the point itself not counted among its neighbours
IsCore_WithoutSelf(cs, i, eps, min_samples) ==
    Cardinality(Neighbours(cs, i, eps) \ {i}) >= min_samples

IsCore(cs, i, eps, min_samples) == Cardinality(Neighbours(cs, i, eps)) >= min_samples

\* the points one cluster collects from its seed: unlabelled neighbours of its core points
RECURSIVE Expand(_, _, _, _, _)
Expand(S, labels, cs, eps, min_samples) ==
    LET N == {j \in DOMAIN cs \ S :
                /\ labels[j] = -1
                /\ \E i \in S : IsCore(cs, i, eps, min_samples) /\ j \in Neighbours(cs, i, eps)}
    IN  IF N = {} THEN S ELSE Expand(S \cup N, labels, cs, eps, min_samples)

\* sklearn's dbscan_inner: points in index order, a new label per unlabelled core point
RECURSIVE DbscanFrom(_, _, _, _, _, _)
DbscanFrom(i, labels, label_num, cs, eps, min_samples) ==
    IF i > Len(cs) THEN labels
    ELSE IF labels[i] # -1 \/ ~IsCore(cs, i, eps, min_samples)
    THEN DbscanFrom(i + 1, labels, label_num, cs, eps, min_samples)
    ELSE LET C == Expand({i}, labels, cs, eps, min_samples)
         IN  DbscanFrom(i + 1, [j \in DOMAIN cs |-> IF j \in C THEN label_num ELSE labels[j]],
                        label_num + 1, cs, eps, min_samples)

\* line 382-383: DBSCAN(eps, min_samples).fit(centroids).labels_
DBSCAN(cs, eps, min_samples) ==
    DbscanFrom(1, [j \in DOMAIN cs |-> -1], 0, cs, eps, min_samples)

\* line 386
NClusters(cluster_labels) ==
    LET ids == {cluster_labels[j] : j \in DOMAIN cluster_labels}
    IN  Cardinality(ids) - (IF -1 \in ids THEN 1 ELSE 0)

\* matplotlib's gist_rainbow segment data: <<x in 1/1000, r, g, b in 1/100>>
GistRainbowData ==
    << <<0, 100, 0, 16>>,   <<30, 100, 0, 0>>,    <<215, 100, 100, 0>>,
       <<400, 0, 100, 0>>,  <<586, 0, 100, 100>>, <<770, 0, 0, 100>>,
       <<954, 100, 0, 100>>, <<1000, 100, 0, 75>> >>

\* int(c * 255) for channel ch of entry idx of the 256 entry lookup table
\* (linear interpolation of the segment data at idx/255)
LutChannel(idx, ch) ==
    LET k  == CHOOSE k \in 2 .. Len(GistRainbowData) :
                 /\ GistRainbowData[k][1] * 255 >= idx * 1000
                 /\ GistRainbowData[k - 1][1] * 255 < idx * 1000 \/ k = 2
        a  == GistRainbowData[k - 1]
        b  == GistRainbowData[k]
        D  == (b[1] - a[1]) * 255
        Nn == idx * 1000 - a[1] * 255
    IN  ((a[ch + 1] * D + Nn * (b[ch + 1] - a[ch + 1])) * 255) \div (100 * D)

\* what the caller keeps of the call before: None, or its function, arguments
\* and outcome
VARIABLE earlier

\* a colour cycle that goes on where the call before stopped
ClusterColor_NextOfCycle(i, n_clusters) ==
    LET k    == IF earlier = None THEN i ELSE (i + 1) % n_clusters
        x256 == IF n_clusters = 1 THEN 0 ELSE (256 * k) \div (n_clusters - 1)
        idx  == IF x256 >= 256 THEN 255 ELSE x256
    IN  <<LutChannel(idx, 1), LutChannel(idx, 2), LutChannel(idx, 3)>>

\* lines 391-397: cmap(np.linspace(0, 1, n_clusters))[i][:3] scaled to integers
ClusterColor(i, n_clusters) ==
    LET x256 == IF n_clusters = 1 THEN 0 ELSE (256 * i) \div (n_clusters - 1)
        idx  == IF x256 >= 256 THEN 255 ELSE x256
    IN  <<LutChannel(idx, 1), LutChannel(idx, 2), LutChannel(idx, 3)>>

NoiseColor == <<128, 128, 128>>

\* line 407: cluster_colors.get(cluster_id, noise_color)
ColorOf(cluster_id, n_clusters) ==
    IF cluster_id \in 0 .. (n_clusters - 1) THEN ClusterColor(cluster_id, n_clusters)
    ELSE NoiseColor

\* the cluster ids paired with the particle labels in the opposite order
ClusterColors_Misaligned(src, labeled, particle_labels, cluster_labels) ==
    [p \in DOMAIN src |->
        IF \E i \in DOMAIN particle_labels : labeled[p] = particle_labels[i]
        THEN LET i == CHOOSE i \in DOMAIN particle_labels : labeled[p] = particle_labels[i]
             IN  ColorOf(cluster_labels[Len(cluster_labels) + 1 - i], NClusters(cluster_labels))
        ELSE src[p]]

\* lines 406-408: zip(particle_labels, cluster_labels) paints particle by particle
ClusterColors(src, labeled, particle_labels, cluster_labels) ==
    [p \in DOMAIN src |->
        IF \E i \in DOMAIN particle_labels : labeled[p] = particle_labels[i]
        THEN LET i == CHOOSE i \in DOMAIN particle_labels : labeled[p] = particle_labels[i]
             IN  ColorOf(cluster_labels[i], NClusters(cluster_labels))
        ELSE src[p]]

\* ------------------------------------------------------------ composition
\* lines 115-120: img.paste(processed_part, selection_box) or the array itself
Paste(im, arr, selection_box) ==
    IF selection_box # None
    THEN [size |-> im.size,
          px |-> [p \in DOMAIN im.px |->
                    LET q == <<p[1] - selection_box[2], p[2] - selection_box[1]>>
                    IN  IF q \in DOMAIN arr THEN arr[q] ELSE im.px[p]]]
    ELSE [size |-> im.size, px |-> arr]

\* the share of the marked pixels, not scaled to a percentage
Percentage_NoScale(mask) ==
    LET particle_area == Cardinality(TruePixels(mask))
        total_area    == Cardinality(DOMAIN mask)
    IN  IF total_area > 0 THEN <<particle_area, total_area>> ELSE <<0, 1>>

\* lines 128-130: (particle_area / total_area) * 100 if total_area > 0 else 0,
\* as the fraction <<numerator, denominator>>
Percentage(mask) ==
    LET particle_area == Cardinality(TruePixels(mask))
        total_area    == Cardinality(DOMAIN mask)
    IN  IF total_area > 0 THEN <<100 * particle_area, total_area>> ELSE <<0, 1>>

\* ------------------------------------------------------------------ inputs
Bright == <<200, 200, 200>>
\* black, and a green of luma 130
SpotColors == {<<0, 0, 0>>, <<0, 221, 0>>}

\* the pixels that may be darker than the ground: a corner, the centre
\* diagonal to it and an edge pixel next to the centre
SpotCells == {<<0, 0>>, <<1, 1>>, <<1, 2>>}

\* RGB bitmaps: a bright ground with darker pixels among SpotCells
Bitmaps ==
    UNION {
        {[mode |-> "RGB", size |-> <<ImgW, ImgH>>,
          px |-> [p \in Pos(ImgH, ImgW) |-> IF p \in S THEN c[p] ELSE Bright]]
            : c \in [S -> SpotColors]}
        : S \in SUBSET SpotCells}

\* bitmaps with an alpha band: modes RGBA (pixels <<r, g, b, a>>) and LA
\* (pixels <<l, a>>), an opaque bright ground and a black centre that is
\* fully or half transparent
AlphaBitmaps ==
    {[mode |-> m, size |-> <<ImgW, ImgH>>,
      px |-> [p \in Pos(ImgH, ImgW) |->
                IF m = "RGBA"
                THEN (IF p = <<1, 1>> THEN <<0, 0, 0, a>> ELSE <<200, 200, 200, 255>>)
                ELSE (IF p = <<1, 1>> THEN <<0, a>> ELSE <<200, 255>>)]]
        : m \in {"RGBA", "LA"}, a \in {0, 128}}

\* image_input: a Pillow image, a path that cannot be opened, or another object
ImageInputs ==
    {[kind |-> "Image", image |-> b] : b \in Bitmaps \cup AlphaBitmaps}
        \cup {[kind |-> "str", image |-> None], [kind |-> "other", image |-> None]}

\* sensitivities in halves: -0.5, 0.0, 0.5, 1.0, 1.5
Sensitivities == (-1) .. 3

\* selection_box: None, a box inside the image, or a box without pixels
SelectionBoxes ==
    {None, <<1, 1, ImgW, ImgH>>, <<Min2(ImgW, ImgH), Min2(ImgW, ImgH), ImgW, ImgH>>}

CommonArgs ==
    [image_input : ImageInputs,
     sensitivity_min : Sensitivities,
     sensitivity_max : Sensitivities,
     blur_radius : {1},
     border_width : 0 .. MaxBorder,
     selection_box : SelectionBoxes,
     min_particle_size : 0 .. MaxMinSize,
     max_particle_size : {None} \cup {<<n>> : n \in 1 .. MaxMaxSize}]

ClusterArgs ==
    {[cluster_eps |-> 1, cluster_min_samples |-> 1],
     [cluster_eps |-> 2, cluster_min_samples |-> 2]}

NoClusterArgs == [cluster_eps |-> None, cluster_min_samples |-> None]

\* ------------------------------------------------------------------- state
VARIABLES
    pc,                   \* position in the running call, "idle" between calls
    fn,                   \* the function called
    args,                 \* its arguments
    sensitivity_min,      \* lines 27-28: the sensitivities after the swap
    sensitivity_max,
    opened,               \* the image input has been opened or inspected
    img,                  \* the RGB image, later the image the result is pasted in
    img_array,            \* the pixels of the processing region
    gray_array,
    background_luminance,
    threshold_low,
    threshold_high,
    initial_mask,
    labeled_array,
    mask,
    num_particles,
    particle_labels,
    cluster_labels,
    result_array,
    saved,                \* the image written to output_path, None when none was
    ret,                  \* the returned tuple
    err,                  \* the exception the call raised, "" when none
    \* gui.py, MainWindow and its image label
    pil_image,            \* the size of the loaded image, None before load_image
    label_size,           \* the size of original_image_label
    selection_origin,     \* ImageSelectionLabel.selection_origin
    rubber_band,          \* the geometry of the rubber band, <<x1, y1, x2, y2>>
    last_selection_box,
    last_result_image,    \* None or <<"result_img">>
    save_button,          \* save_button.isEnabled()
    clear_button,         \* clear_button.isEnabled()
    result_files,         \* the paths save_image has written a result to
    drawn,                \* history: a rubber band was started after the
                          \* selection was last cleared
    \* gui.py, one run of batch_process_images
    batch_pc,             \* "idle", "loop", "call", "finished" or "raised"
    file_paths,
    output_dir,           \* the directory of the output line edit
    batch_i,              \* the loop variable i
    canceled,             \* the Cancel button of the progress dialog was clicked
    processed,            \* the files handed to the pipeline, in call order
    written,              \* the output paths written, in order
    printed,              \* the errors reported, <<file, exception>>
    batch_err             \* the exception that left batch_process_images

vars == <<pc, fn, args, sensitivity_min, sensitivity_max, opened, img, img_array,
          gray_array, background_luminance, threshold_low, threshold_high,
          initial_mask, labeled_array, mask, num_particles, particle_labels,
          cluster_labels, result_array, saved, ret, err, earlier>>

select_vars == <<pil_image, label_size, selection_origin, rubber_band,
                 last_selection_box, last_result_image, save_button, clear_button,
                 result_files, drawn>>

batch_vars == <<batch_pc, file_paths, output_dir, batch_i, canceled, processed, written,
                printed, batch_err>>

gui_vars == <<select_vars, batch_vars>>

locals == <<img, img_array, gray_array, background_luminance, threshold_low,
            threshold_high, initial_mask, labeled_array, mask, num_particles,
            particle_labels, cluster_labels, result_array>>

Init ==
    /\ pc = "idle"
    /\ fn = None
    /\ args = None
    /\ sensitivity_min = None
    /\ sensitivity_max = None
    /\ opened = FALSE
    /\ img = None
    /\ img_array = None
    /\ gray_array = None
    /\ background_luminance = None
    /\ threshold_low = None
    /\ threshold_high = None
    /\ initial_mask = None
    /\ labeled_array = None
    /\ mask = None
    /\ num_particles = 0
    /\ particle_labels = None
    /\ cluster_labels = None
    /\ result_array = None
    /\ saved = None
    /\ ret = None
    /\ err = ""
    /\ earlier = None
    /\ pil_image = None
    /\ label_size = <<LabelW, LabelH>>
    /\ selection_origin = <<0, 0>>
    /\ rubber_band = DefaultGeometry
    /\ last_selection_box = None
    /\ last_result_image = None
    /\ save_button = FALSE
    /\ clear_button = FALSE
    /\ result_files = {}
    /\ drawn = FALSE
    /\ batch_pc = "idle"
    /\ file_paths = <<>>
    /\ output_dir = ""
    /\ batch_i = 0
    /\ canceled = FALSE
    /\ processed = <<>>
    /\ written = <<>>
    /\ printed = <<>>
    /\ batch_err = ""

\* the processing region is RegionH rows by RegionW columns
RegionW == IF args.selection_box # None
           THEN args.selection_box[3] - args.selection_box[1] ELSE img.size[1]
RegionH == IF args.selection_box # None
           THEN args.selection_box[4] - args.selection_box[2] ELSE img.size[2]

Raise(e) ==
    /\ pc' = "raised"
    /\ err' = e

\* the range check without its lower end
ValidSensitivity_NoLowerBound(s) == s <= 2

\* lines 25-28 (172-175, 317-320): the range check and the swap
ValidSensitivity(s) == 0 <= s /\ s <= 2

\* the lower threshold taken from sensitivity_min as passed
SwappedMin_AsPassed(smin, smax) == smin

SwappedMin(smin, smax) == IF smin > smax THEN smax ELSE smin
SwappedMax(smin, smax) == IF smin > smax THEN smin ELSE smax

Enter(f, a) ==
    /\ fn' = f
    /\ args' = a
    /\ IF ~(ValidSensitivity(a.sensitivity_min) /\ ValidSensitivity(a.sensitivity_max))
       THEN /\ Raise("ValueError")
            /\ UNCHANGED <<sensitivity_min, sensitivity_max>>
       ELSE /\ pc' = "validated"
            /\ sensitivity_min' = SwappedMin(a.sensitivity_min, a.sensitivity_max)
            /\ sensitivity_max' = SwappedMax(a.sensitivity_min, a.sensitivity_max)
            /\ err' = ""
    /\ UNCHANGED <<opened, locals, saved, ret>>
    /\ UNCHANGED <<gui_vars, earlier>>

mark_dark_particles_adaptive ==
    /\ pc = "idle"
    /\ \E a \in CommonArgs :
          Enter("adaptive", a @@ NoClusterArgs @@ [output_path |-> "output/marked_result.png"])

mark_dark_particles_gradient ==
    /\ pc = "idle"
    /\ \E a \in CommonArgs :
          Enter("gradient", a @@ NoClusterArgs @@ [output_path |-> "output/marked_gradient.png"])

mark_particles_with_clustering ==
    /\ pc = "idle"
    /\ \E a \in CommonArgs, c \in ClusterArgs :
          Enter("clustering", a @@ c @@ [output_path |-> "output/marked_clustered.png"])

\* lines 30-53: isinstance checks, Image.open, mode conversion, crop, arrays
Load ==
    /\ pc = "validated"
    /\ opened' = TRUE
    /\ IF args.image_input.kind = "other"
       THEN /\ Raise("TypeError")
            /\ UNCHANGED <<img, img_array, gray_array>>
       ELSE IF args.image_input.kind = "str"
       THEN /\ Raise("FileNotFoundError")
            /\ UNCHANGED <<img, img_array, gray_array>>
       ELSE /\ pc' = "loaded"
            /\ img' = ToRGB(args.image_input.image)
            /\ img_array' = Crop(img', args.selection_box).px
            /\ gray_array' = GrayArray(Crop(img', args.selection_box))
            /\ UNCHANGED err
    /\ UNCHANGED <<gui_vars, earlier>>
    /\ UNCHANGED <<fn, args, sensitivity_min, sensitivity_max, background_luminance,
                   threshold_low, threshold_high, initial_mask, labeled_array, mask,
                   num_particles, particle_labels, cluster_labels, result_array,
                   saved, ret>>

\* What scipy and Pillow do with an array without elements depends on their
\* version: the call either goes through or raises some exception.
MayReject(a) == DOMAIN a = {}

\* lines 55-70: background luminance, both thresholds, the initial mask
ThresholdStep ==
    /\ pc = "loaded"
    /\ \/ /\ MayReject(gray_array)
          /\ Raise("Exception")
          /\ UNCHANGED <<background_luminance, threshold_low, threshold_high, initial_mask>>
       \/ /\ pc' = "thresholded"
          /\ background_luminance' =
                GaussianFilter(gray_array, RegionH, RegionW, args.blur_radius)
          /\ threshold_high' = Threshold(background_luminance', sensitivity_max)
          /\ threshold_low' = Threshold(background_luminance', sensitivity_min)
          /\ initial_mask' = InitialMask(gray_array, threshold_low', threshold_high',
                                         args.blur_radius)
          /\ UNCHANGED err
    /\ UNCHANGED <<gui_vars, earlier>>
    /\ UNCHANGED <<fn, args, sensitivity_min, sensitivity_max, opened, img, img_array,
                   gray_array, labeled_array, mask, num_particles, particle_labels,
                   cluster_labels, result_array, saved, ret>>

\* number of labels the size mask keeps: np.sum(size_mask)
CountTrue(size_mask) == Cardinality({i \in DOMAIN size_mask : size_mask[i]})

\* lines 71-101 (211-227): the size filter of the Flat and Gradient modes
\* lines 352-364: the size filter of the Clustered mode, on the labels
SizeFilterStep ==
    /\ pc = "thresholded"
    /\ LET lab   == Label(initial_mask, RegionW)
           sizes == Bincount(lab.array)
           keep  == SizeMask(sizes, args.min_particle_size, args.max_particle_size)
       IN  IF SizeFilterOn(args.min_particle_size, args.max_particle_size)
           THEN IF sizes = <<>>
                THEN \* size_mask[0] = False on an array without elements
                     /\ Raise("IndexError")
                     /\ labeled_array' = lab.array
                     /\ UNCHANGED <<mask, num_particles>>
                ELSE /\ pc' = "filtered"
                     /\ IF fn = "clustering"
                        THEN /\ labeled_array' =
                                  LET final == FinalMask(lab.array, keep)
                                  IN  [p \in DOMAIN lab.array |->
                                          IF final[p] THEN lab.array[p] ELSE 0]
                             /\ UNCHANGED <<mask, num_particles>>
                        ELSE /\ labeled_array' = lab.array
                             /\ num_particles' = CountTrue(keep)
                             /\ mask' = FinalMask(lab.array, keep)
                     /\ UNCHANGED err
           ELSE /\ pc' = "filtered"
                /\ IF fn = "clustering"
                   THEN /\ labeled_array' = lab.array
                        /\ UNCHANGED <<mask, num_particles>>
                   ELSE /\ mask' = initial_mask
                        /\ num_particles' = lab.num
                        /\ UNCHANGED labeled_array
                /\ UNCHANGED err
    /\ UNCHANGED <<gui_vars, earlier>>
    /\ UNCHANGED <<fn, args, sensitivity_min, sensitivity_max, opened, img, img_array,
                   gray_array, background_luminance, threshold_low, threshold_high,
                   initial_mask, particle_labels, cluster_labels, result_array,
                   saved, ret>>

\* without a size filter mask and initial_mask are one array (line 99)
MaskIsInitialMask ==
    fn # "clustering" /\ ~SizeFilterOn(args.min_particle_size, args.max_particle_size)

\* lines 103-108 (229-233, 366-370): the border of the processing region
BorderStep ==
    /\ pc = "filtered"
    /\ pc' = "bordered"
    /\ IF fn = "clustering"
       THEN /\ labeled_array' =
                ClearBorder(labeled_array, RegionH, RegionW, args.border_width, 0)
            /\ UNCHANGED <<mask, initial_mask>>
       ELSE /\ mask' = ClearBorder(mask, RegionH, RegionW, args.border_width, FALSE)
            /\ initial_mask' = IF MaskIsInitialMask THEN mask' ELSE initial_mask
            /\ UNCHANGED labeled_array
    /\ UNCHANGED <<gui_vars, earlier>>
    /\ UNCHANGED <<fn, args, sensitivity_min, sensitivity_max, opened, img, img_array,
                   gray_array, background_luminance, threshold_low, threshold_high,
                   num_particles, particle_labels, cluster_labels, result_array,
                   saved, ret, err>>

\* lines 110-112 (235-260): the colouring of the Flat and Gradient modes
\* lines 372-408: particle labels, early return, centroids, DBSCAN, colours
ColorStep ==
    /\ pc = "bordered"
    /\ IF fn = "clustering"
       THEN /\ particle_labels' = ParticleLabels(labeled_array)
            /\ IF Len(particle_labels') = 0
               THEN /\ pc' = "done"
                    /\ ret' = <<img, <<0, 1>>, 0>>
                    /\ UNCHANGED <<cluster_labels, result_array>>
               ELSE /\ pc' = "colored"
                    /\ cluster_labels' =
                          DBSCAN(Centroids(initial_mask, labeled_array, particle_labels'),
                                 args.cluster_eps, args.cluster_min_samples)
                    /\ result_array' = ClusterColors(img_array, labeled_array,
                                                     particle_labels', cluster_labels')
                    /\ UNCHANGED ret
       ELSE /\ pc' = "colored"
            /\ result_array' =
                  IF fn = "adaptive" THEN FlatColors(img_array, mask)
                  ELSE GradientColors(img_array, mask, gray_array, threshold_low,
                                      threshold_high, ThrDen(args.blur_radius))
            /\ UNCHANGED <<particle_labels, cluster_labels, ret>>
    /\ UNCHANGED <<gui_vars, earlier>>
    /\ UNCHANGED <<fn, args, sensitivity_min, sensitivity_max, opened, img, img_array,
                   gray_array, background_luminance, threshold_low, threshold_high,
                   initial_mask, labeled_array, mask, num_particles, saved, err>>

\* the mask the percentage is taken of (line 422 in the Clustered mode)
FinalMaskOf(f, m, labeled) ==
    IF f = "clustering" THEN AsArray([p \in DOMAIN labeled |-> labeled[p] > 0]) ELSE m

\* lines 114-154 (263-297, 410-454): paste, outline, percentage, text, save, return
ComposeStep ==
    /\ pc = "colored"
    /\ \/ /\ MayReject(result_array)
          /\ Raise("Exception")
          /\ UNCHANGED <<img, num_particles, saved, ret>>
       \/ LET percentage == Percentage(FinalMaskOf(fn, mask, labeled_array))
              count      == IF fn = "clustering" THEN Len(particle_labels) ELSE num_particles
              text       == IF fn = "clustering"
                            THEN <<percentage, count, NClusters(cluster_labels)>>
                            ELSE <<percentage, count>>
              pasted     == Paste(img, result_array, args.selection_box)
              result_img == [size |-> pasted.size, px |-> pasted.px,
                             outline |-> args.selection_box, text |-> text]
          IN  /\ pc' = "done"
              /\ img' = IF args.selection_box # None THEN result_img ELSE img
              /\ num_particles' = count
              /\ saved' = [path |-> args.output_path, image |-> result_img]
              /\ ret' = IF fn = "clustering"
                        THEN <<result_img, percentage, count, NClusters(cluster_labels)>>
                        ELSE <<result_img, percentage, count>>
              /\ UNCHANGED err
    /\ UNCHANGED <<gui_vars, earlier>>
    /\ UNCHANGED <<fn, args, sensitivity_min, sensitivity_max, opened, img_array,
                   gray_array, background_luminance, threshold_low, threshold_high,
                   initial_mask, labeled_array, mask, particle_labels, cluster_labels,
                   result_array>>

\* the frame of the call is dropped: the locals of the next call are fresh
Reset ==
    /\ pc' = "idle"
    /\ fn' = None
    /\ args' = None
    /\ sensitivity_min' = None
    /\ sensitivity_max' = None
    /\ opened' = FALSE
    /\ img' = None
    /\ img_array' = None
    /\ gray_array' = None
    /\ background_luminance' = None
    /\ threshold_low' = None
    /\ threshold_high' = None
    /\ initial_mask' = None
    /\ labeled_array' = None
    /\ mask' = None
    /\ num_particles' = 0
    /\ particle_labels' = None
    /\ cluster_labels' = None
    /\ result_array' = None
    /\ saved' = None
    /\ ret' = None
    /\ err' = ""

\* the caller takes the result or the exception; the next call starts afresh
Return ==
    /\ pc \in {"done", "raised"}
    /\ Reset
    /\ UNCHANGED <<gui_vars, earlier>>

Next ==
    \/ mark_dark_particles_adaptive
    \/ mark_dark_particles_gradient
    \/ mark_particles_with_clustering
    \/ Load
    \/ ThresholdStep
    \/ SizeFilterStep
    \/ BorderStep
    \/ ColorStep
    \/ ComposeStep
    \/ Return

Spec == Init /\ [][Next]_vars

\* ------------------------------------------------ the same call made twice
\* A caller makes a call, keeps its outcome, and repeats the call with the
\* same function and the same arguments.
FirstCall ==
    /\ earlier = None
    /\ \/ mark_dark_particles_adaptive
       \/ mark_dark_particles_gradient
       \/ mark_particles_with_clustering

ReturnFirst ==
    /\ pc \in {"done", "raised"}
    /\ earlier = None
    /\ Reset
    /\ earlier' = [fn |-> fn, args |-> args, ret |-> ret, saved |-> saved, err |-> err]
    /\ UNCHANGED gui_vars

CallAgain ==
    /\ pc = "idle"
    /\ earlier # None
    /\ Enter(earlier.fn, earlier.args)

ReturnSecond ==
    /\ pc \in {"done", "raised"}
    /\ earlier # None
    /\ Reset
    /\ earlier' = None
    /\ UNCHANGED gui_vars

TwiceNext ==
    \/ FirstCall
    \/ ReturnFirst
    \/ CallAgain
    \/ ReturnSecond
    \/ Load
    \/ ThresholdStep
    \/ SizeFilterStep
    \/ BorderStep
    \/ ColorStep
    \/ ComposeStep

TwiceSpec == Init /\ [][TwiceNext]_vars

\* ------------------------------------------------- the pipeline as a function
\* What one call computes from its arguments, for an image input that loads:
\* the same steps as the actions above, composed.
RegionOf(a) == Crop(ToRGB(a.image_input.image), a.selection_box)

InitialMaskOf(a) ==
    LET region == RegionOf(a)
        gray   == GrayArray(region)
        B      == GaussianFilter(gray, region.size[2], region.size[1], a.blur_radius)
    IN  InitialMask(gray,
                    Threshold(B, SwappedMin(a.sensitivity_min, a.sensitivity_max)),
                    Threshold(B, SwappedMax(a.sensitivity_min, a.sensitivity_max)),
                    a.blur_radius)

SizeMaskOf(a) ==
    SizeMask(Bincount(Label(InitialMaskOf(a), RegionOf(a).size[1]).array),
             a.min_particle_size, a.max_particle_size)

SizeFilteredMaskOf(a) ==
    LET m0  == InitialMaskOf(a)
        lab == Label(m0, RegionOf(a).size[1]).array
    IN  IF SizeFilterOn(a.min_particle_size, a.max_particle_size)
        THEN FinalMask(lab, SizeMask(Bincount(lab), a.min_particle_size, a.max_particle_size))
        ELSE m0

BorderedMaskOf(a) ==
    LET region == RegionOf(a)
    IN  ClearBorder(SizeFilteredMaskOf(a), region.size[2], region.size[1],
                    a.border_width, FALSE)

\* lines 352-370: the labels of the Clustered mode after size filter and border
LabeledOf(a) ==
    LET region == RegionOf(a)
        lab    == Label(InitialMaskOf(a), region.size[1]).array
        keep   == SizeMask(Bincount(lab), a.min_particle_size, a.max_particle_size)
        final  == FinalMask(lab, keep)
        kept   == IF SizeFilterOn(a.min_particle_size, a.max_particle_size)
                  THEN AsArray([p \in DOMAIN lab |-> IF final[p] THEN lab[p] ELSE 0])
                  ELSE lab
    IN  ClearBorder(kept, region.size[2], region.size[1], a.border_width, 0)

\* the final mask of a call of function f
FinalMaskIn(f, a) ==
    IF f = "clustering" THEN FinalMaskOf(f, None, LabeledOf(a)) ELSE BorderedMaskOf(a)

\* area_percentage as a call of function f returns it
AreaPercentageIn(f, a) ==
    IF f = "clustering" /\ Len(ParticleLabels(LabeledOf(a))) = 0
    THEN <<0, 1>>
    ELSE Percentage(FinalMaskIn(f, a))

\* particle_count as a call of function f returns it
ParticleCountIn(f, a) ==
    IF f = "clustering" THEN Len(ParticleLabels(LabeledOf(a)))
    ELSE IF SizeFilterOn(a.min_particle_size, a.max_particle_size)
    THEN CountTrue(SizeMaskOf(a))
    ELSE Label(InitialMaskOf(a), RegionOf(a).size[1]).num

\* ------------------------------------------------ gui.py: the selection box
\* A QRect is <<x1, y1, x2, y2>>, both corners inside the rectangle.
RectWidth(r) == r[3] - r[1] + 1
RectHeight(r) == r[4] - r[2] + 1
RectIsNull(r) == RectWidth(r) = 0 /\ RectHeight(r) = 0
RectOfSize(p, w, h) == <<p[1], p[2], p[1] + w - 1, p[2] + h - 1>>
Translated(r, dx, dy) == <<r[1] + dx, r[2] + dy, r[3] + dx, r[4] + dy>>

\* QRect.normalized() of Qt 6: a rectangle of negative width or height is
\* replaced by the one between its corners
Normalized(r) ==
    LET xs == IF r[3] < r[1] THEN <<r[3] + 1, r[1] - 1>> ELSE <<r[1], r[3]>>
        ys == IF r[4] < r[2] THEN <<r[4] + 1, r[2] - 1>> ELSE <<r[2], r[4]>>
    IN <<xs[1], ys[1], xs[2], ys[2]>>

\* gui.py 71-74: the pixmap scaled into the label with KeepAspectRatio
\* (QSize.scaled: the height is used when the width it gives fits)
PixmapSize(image, label) ==
    LET rw == (label[2] * image[1]) \div image[2]
    IN IF rw <= label[1] THEN <<rw, label[2]>>
       ELSE <<label[1], (label[1] * image[2]) \div image[1]>>

\* Python's int(): truncation towards zero of n / d, d > 0
TruncDiv(n, d) == IF n >= 0 THEN n \div d ELSE -((-n) \div d)

\* the clamp without the sort
Clamped_Unsorted(lo, hi, extent) == <<Max2(0, lo), Min2(extent, hi)>>

\* gui.py 586-587: sorted((max(0, lo), min(extent, hi)))
Clamped(lo, hi, extent) ==
    LET a == Max2(0, lo)
        b == Min2(extent, hi)
    IN IF a <= b THEN <<a, b>> ELSE <<b, a>>

\* gui.py 568-588: the rubber band mapped to image coordinates.  The products
\* adj * (image / pixmap) are floating point in the code; for the sizes of
\* this model they truncate to the same integers as the exact quotients.
SelectionBoxOf(selection_qrect, label, image) ==
    LET pixmap_size == PixmapSize(image, label)
        offset_x == (label[1] - pixmap_size[1]) \div 2
        offset_y == (label[2] - pixmap_size[2]) \div 2
        adj_rect == Translated(selection_qrect, -offset_x, -offset_y)
        left == TruncDiv(adj_rect[1] * image[1], pixmap_size[1])
        top == TruncDiv(adj_rect[2] * image[2], pixmap_size[2])
        right == TruncDiv(adj_rect[3] * image[1], pixmap_size[1])
        bottom == TruncDiv(adj_rect[4] * image[2], pixmap_size[2])
        lr == Clamped(left, right, image[1])
        tb == Clamped(top, bottom, image[2])
    IN <<lr[1], tb[1], lr[2], tb[2]>>

\* gui.py 563: the rubber band is taken as a new selection
IsSelection(r) == ~RectIsNull(r) /\ RectWidth(r) > 1 /\ RectHeight(r) > 1

\* the images load_image opens and the sizes a window resize gives the label
GuiImageSizes == {<<ImgW, ImgH>>, <<ImgW, ImgH + 1>>}
LabelSizes == {<<LabelW, LabelH>>, <<LabelH, LabelW>>}

\* the points of the label, and those a drag reaches inside or just outside it
PressPoints == {<<x, y>> : x \in 0 .. label_size[1] - 1, y \in 0 .. label_size[2] - 1}
DragPoints == {<<x, y>> : x \in (-1) .. label_size[1], y \in (-1) .. label_size[2]}

\* gui.py 552-625.  The pipeline call of lines 600-610 either returns, and the
\* result is shown, or raises, and the handler is left at the call.
process_image ==
    IF pil_image = None
    THEN UNCHANGED <<last_selection_box, last_result_image, save_button, clear_button>>
    ELSE LET pixmap_size == PixmapSize(pil_image, label_size)
         IN IF IsSelection(rubber_band) /\ (pixmap_size[1] = 0 \/ pixmap_size[2] = 0)
            THEN UNCHANGED <<last_selection_box, last_result_image, save_button,
                             clear_button>>
            ELSE /\ last_selection_box' =
                       IF IsSelection(rubber_band)
                       THEN SelectionBoxOf(rubber_band, label_size, pil_image)
                       ELSE last_selection_box
                 /\ IF last_selection_box' = None
                    THEN UNCHANGED <<last_result_image, save_button, clear_button>>
                    ELSE \E returns \in BOOLEAN :
                            IF returns
                            THEN /\ last_result_image' = <<"result_img">>
                                 /\ save_button' = TRUE
                                 /\ clear_button' = TRUE
                            ELSE UNCHANGED <<last_result_image, save_button,
                                             clear_button>>

\* gui.py 506-516: a file is chosen; clear_selection(clear_image=False)
load_image ==
    /\ \E size \in GuiImageSizes : pil_image' = size
    /\ last_selection_box' = None
    /\ last_result_image' = None
    /\ save_button' = FALSE
    /\ clear_button' = FALSE
    /\ drawn' = FALSE
    /\ UNCHANGED <<label_size, selection_origin, rubber_band, result_files>>
    /\ UNCHANGED <<vars, batch_vars>>

\* lines 525-528 without the two setEnabled(False)
clear_selection_KeepsButtons ==
    /\ last_selection_box' = None
    /\ last_result_image' = None
    /\ UNCHANGED <<save_button, clear_button>>
    /\ drawn' = FALSE
    /\ UNCHANGED <<pil_image, label_size, selection_origin, rubber_band, result_files>>
    /\ UNCHANGED <<vars, batch_vars>>

\* gui.py 518-535: the method has no condition of its own
clear_selection ==
    /\ last_selection_box' = None
    /\ last_result_image' = None
    /\ save_button' = FALSE
    /\ clear_button' = FALSE
    /\ drawn' = FALSE
    /\ UNCHANGED <<pil_image, label_size, selection_origin, rubber_band, result_files>>
    /\ UNCHANGED <<vars, batch_vars>>

\* gui.py 53-61: the window is resized and the pixmap is scaled again
resizeEvent ==
    /\ \E size \in LabelSizes \ {label_size} : label_size' = size
    /\ UNCHANGED <<pil_image, selection_origin, rubber_band, last_selection_box,
                   last_result_image, save_button, clear_button, result_files, drawn>>
    /\ UNCHANGED <<vars, batch_vars>>

\* gui.py 90-100: QRect(origin, QSize()) has the size <<-1, -1>>, which the
\* widget keeps or raises to <<0, 0>>
mousePressEvent ==
    /\ pil_image # None
    /\ \E pos \in PressPoints, s \in {-1, 0} :
          /\ selection_origin' = pos
          /\ rubber_band' = RectOfSize(pos, s, s)
    /\ drawn' = TRUE
    /\ UNCHANGED <<pil_image, label_size, last_selection_box, last_result_image,
                   save_button, clear_button, result_files>>
    /\ UNCHANGED <<vars, batch_vars>>

\* gui.py 102-110
mouseMoveEvent ==
    /\ selection_origin # <<0, 0>>
    /\ pil_image # None
    /\ \E pos \in DragPoints :
          rubber_band' = Normalized(<<selection_origin[1], selection_origin[2],
                                      pos[1], pos[2]>>)
    /\ UNCHANGED <<pil_image, label_size, selection_origin, last_selection_box,
                   last_result_image, save_button, clear_button, result_files, drawn>>
    /\ UNCHANGED <<vars, batch_vars>>

\* gui.py 112-121: selection_changed is connected to process_image (line 150)
mouseReleaseEvent ==
    /\ pil_image # None
    /\ process_image
    /\ UNCHANGED <<pil_image, label_size, selection_origin, rubber_band, result_files,
                   drawn>>
    /\ UNCHANGED <<vars, batch_vars>>

\* gui.py 208-292: a parameter spin box changes and calls process_image
valueChanged ==
    /\ process_image
    /\ UNCHANGED <<pil_image, label_size, selection_origin, rubber_band, result_files,
                   drawn>>
    /\ UNCHANGED <<vars, batch_vars>>

SelectNext ==
    \/ load_image
    \/ clear_selection
    \/ resizeEvent
    \/ mousePressEvent
    \/ mouseMoveEvent
    \/ mouseReleaseEvent
    \/ valueChanged

SelectSpec == Init /\ [][SelectNext]_select_vars

\* the paths the save dialog can return, "" when it is dismissed
SavePaths == {"marked_result.png", "other.jpg"}

\* gui.py 537-550 without the test of line 541
save_image_Unguarded ==
    /\ \E file_path \in SavePaths \cup {""}, wrote \in BOOLEAN :
          result_files' = IF file_path # "" /\ wrote
                          THEN result_files \cup {file_path}
                          ELSE result_files
    /\ UNCHANGED <<pil_image, label_size, selection_origin, rubber_band,
                   last_selection_box, last_result_image, save_button, clear_button,
                   drawn>>
    /\ UNCHANGED <<vars, batch_vars>>

\* gui.py 537-550: nothing without a result; the dialog may be dismissed
\* and Image.save may raise, which is caught (lines 546-550)
save_image ==
    /\ IF last_result_image = None
       THEN UNCHANGED result_files
       ELSE \E file_path \in SavePaths \cup {""}, wrote \in BOOLEAN :
               result_files' = IF file_path # "" /\ wrote
                               THEN result_files \cup {file_path}
                               ELSE result_files
    /\ UNCHANGED <<pil_image, label_size, selection_origin, rubber_band,
                   last_selection_box, last_result_image, save_button, clear_button,
                   drawn>>
    /\ UNCHANGED <<vars, batch_vars>>

\* the window's operations on the result: every method is called in any
\* state, whether its button is enabled or not; a rubber band is pressed and
\* released without a drag
ButtonNext ==
    \/ load_image
    \/ clear_selection
    \/ mousePressEvent
    \/ mouseReleaseEvent
    \/ valueChanged
    \/ save_image

ButtonSpec == Init /\ [][ButtonNext]_select_vars

\* ---------------------------------------------- gui.py: batch_process_images
\* the files of the open dialog, all of the directory "in": a.png, b.png,
\* a_marked.png and d.jpg.  A name is the sequence of its parts; error is the
\* exception the pipeline call raises on the file as the dialog found it, ""
\* when the call returns
Files ==
    {[dir |-> "in", name |-> <<"a">>, ext |-> ".png", error |-> ""],
     [dir |-> "in", name |-> <<"b">>, ext |-> ".png", error |-> "UnidentifiedImageError"],
     [dir |-> "in", name |-> <<"a", "_marked">>, ext |-> ".png", error |-> ""],
     [dir |-> "in", name |-> <<"d">>, ext |-> ".jpg", error |-> "OSError"]}

\* the directories the output line edit can name: that of the files or another
OutputDirs == {"in", "out"}

\* the selections getOpenFileNames can return: each file at most once
FileLists ==
    {s \in UNION {[1 .. n -> Files] : n \in 0 .. Cardinality(Files)} :
        \A j, k \in DOMAIN s : j # k => s[j] # s[k]}

\* the path of a listed file
PathOf(f) == [dir |-> f.dir, name |-> f.name, ext |-> f.ext]

\* gui.py 469-473: os.path.join(output_dir, f"{name}_marked{ext}")
OutputPath(f) == [dir |-> output_dir, name |-> Append(f.name, "_marked"), ext |-> f.ext]

\* the exception of the pipeline call on f: a file that an output of this
\* run has replaced is a readable image
ErrorOf(f) ==
    IF \E k \in DOMAIN written : written[k] = PathOf(f) THEN "" ELSE f.error

\* the except clause taken for ValueError only
IsException_OnlyValueError(e) == e = "ValueError"

\* gui.py 486: except Exception catches every error class of the pipeline
IsException(e) ==
    e \in {"ValueError", "TypeError", "IndexError", "OSError", "UnidentifiedImageError"}

\* the check of the cancel flag left out
wasCanceled_Never == FALSE

\* gui.py 467: progress.wasCanceled(), after the events of setValue(i)
wasCanceled == canceled

\* gui.py 438-463: the dialog, the output directory, the progress dialog
batch_process_images ==
    /\ batch_pc = "idle"
    /\ \E paths \in FileLists, dir \in OutputDirs \cup {""} :
          IF paths = <<>> \/ dir = ""
          THEN UNCHANGED batch_vars
          ELSE /\ batch_pc' = "loop"
               /\ file_paths' = paths
               /\ output_dir' = dir
               /\ batch_i' = 0
               /\ canceled' = FALSE
               /\ processed' = <<>>
               /\ written' = <<>>
               /\ printed' = <<>>
               /\ batch_err' = ""
    /\ UNCHANGED <<vars, select_vars>>

\* gui.py 465-475: the head of one iteration, up to the call of the pipeline
BatchIterate ==
    /\ batch_pc = "loop"
    /\ batch_i < Len(file_paths)
    /\ IF wasCanceled
       THEN /\ batch_pc' = "finished"
            /\ UNCHANGED processed
       ELSE /\ batch_pc' = "call"
            /\ processed' = Append(processed, file_paths[batch_i + 1])
    /\ UNCHANGED <<file_paths, output_dir, batch_i, canceled, written, printed, batch_err>>
    /\ UNCHANGED <<vars, select_vars>>

\* gui.py 475-487: the pipeline call ends; its output is written (main.py 133)
\* or its exception is handled
BatchCallEnds ==
    /\ batch_pc = "call"
    /\ LET f == file_paths[batch_i + 1]
           e == ErrorOf(f)
       IN IF e = ""
          THEN /\ written' = Append(written, OutputPath(f))
               /\ batch_pc' = "loop"
               /\ UNCHANGED <<printed, batch_err>>
          ELSE IF IsException(e)
          THEN /\ printed' = Append(printed, <<f, e>>)
               /\ batch_pc' = "loop"
               /\ UNCHANGED <<written, batch_err>>
          ELSE /\ batch_err' = e
               /\ batch_pc' = "raised"
               /\ UNCHANGED <<written, printed>>
    /\ batch_i' = batch_i + 1
    /\ UNCHANGED <<file_paths, output_dir, canceled, processed>>
    /\ UNCHANGED <<vars, select_vars>>

\* gui.py 465, 489: the list is exhausted
BatchExhausted ==
    /\ batch_pc = "loop"
    /\ batch_i = Len(file_paths)
    /\ batch_pc' = "finished"
    /\ UNCHANGED <<file_paths, output_dir, batch_i, canceled, processed, written, printed,
                   batch_err>>
    /\ UNCHANGED <<vars, select_vars>>

\* gui.py 460-463: the user clicks Cancel in the progress dialog, at any time
\* of the run; the click waits for the next setValue
Cancel ==
    /\ batch_pc \in {"loop", "call"}
    /\ ~canceled
    /\ canceled' = TRUE
    /\ UNCHANGED <<batch_pc, file_paths, output_dir, batch_i, processed, written, printed,
                   batch_err>>
    /\ UNCHANGED <<vars, select_vars>>

\* the handler is left, by its end or by an exception
BatchReturn ==
    /\ batch_pc \in {"finished", "raised"}
    /\ batch_pc' = "idle"
    /\ file_paths' = <<>>
    /\ output_dir' = ""
    /\ batch_i' = 0
    /\ canceled' = FALSE
    /\ processed' = <<>>
    /\ written' = <<>>
    /\ printed' = <<>>
    /\ batch_err' = ""
    /\ UNCHANGED <<vars, select_vars>>

BatchNext ==
    \/ batch_process_images
    \/ BatchIterate
    \/ BatchCallEnds
    \/ BatchExhausted
    \/ Cancel
    \/ BatchReturn

BatchSpec == Init /\ [][BatchNext]_batch_vars

\* ================================================================== claims
\* the mask of the running call, in every mode
CurrentMask == FinalMaskOf(fn, mask, labeled_array)

\* 4-connectivity stated on its own: two pixels one step apart along one axis
Abs(n) == IF n < 0 THEN -n ELSE n

OneStepApart(p, q) == Abs(p[1] - q[1]) + Abs(p[2] - q[2]) = 1

RECURSIVE Reach4(_, _)
Reach4(S, M) ==
    LET T == S \cup {q \in M : \E p \in S : OneStepApart(p, q)}
    IN  IF T = S THEN S ELSE Reach4(T, M)

\* the 4-connected component of pixel p in the set M of pixels
ComponentOf(p, M) == Reach4({p}, M)

\* a component of n pixels passes the size bounds
WithinSizeBounds(n, min_particle_size, max_particle_size) ==
    /\ min_particle_size > 0 => n >= min_particle_size
    /\ max_particle_size # None => n <= max_particle_size[1]

\* C1: in every mode the initial mask holds exactly the pixels with
\* threshold_low <= gray < threshold_high, the thresholds being the local
\* background times 0.5 + 0.5 * sensitivity for the sensitivities in
\* increasing order; a pixel darker than threshold_low is not in the mask.
C1_InitialMaskIsTheBand ==
    pc = "thresholded" =>
        LET lo  == Min2(args.sensitivity_min, args.sensitivity_max)
            hi  == Max2(args.sensitivity_min, args.sensitivity_max)
            den == ThrDen(args.blur_radius)
        IN  \A p \in DOMAIN gray_array :
                LET tlow == background_luminance[p] * (2 + lo)
                    thi  == background_luminance[p] * (2 + hi)
                    g    == gray_array[p] * den
                IN  /\ threshold_low[p] = tlow
                    /\ threshold_high[p] = thi
                    /\ initial_mask[p] <=> (tlow <= g /\ g < thi)
                    /\ g < tlow => ~initial_mask[p]

C1_Witness ==
    /\ pc = "thresholded"
    /\ args.sensitivity_min > args.sensitivity_max
    /\ \E p \in DOMAIN gray_array : initial_mask[p]
    /\ \E p \in DOMAIN gray_array :
          /\ gray_array[p] * ThrDen(args.blur_radius) < threshold_low[p]
          /\ gray_array[p] * ThrDen(args.blur_radius) < threshold_high[p]

\* C2: with a size filter, the mask right after the size filter step holds
\* exactly the pixels of the 4-connected components of the initial mask whose
\* pixel count is within the bounds; no background pixel is added.
C2_SizeFilterKeepsComponentsWithinBounds ==
    (pc = "filtered" /\ SizeFilterOn(args.min_particle_size, args.max_particle_size)) =>
        LET kept == CurrentMask
            M    == TruePixels(initial_mask)
        IN  \A p \in DOMAIN initial_mask :
                kept[p] <=>
                    /\ p \in M
                    /\ WithinSizeBounds(Cardinality(ComponentOf(p, M)),
                                        args.min_particle_size, args.max_particle_size)

C2_Witness ==
    /\ pc = "filtered"
    /\ args.min_particle_size > 1
    /\ fn = "clustering"
    /\ \E p \in DOMAIN initial_mask : initial_mask[p] /\ CurrentMask[p]
    /\ \E p \in DOMAIN initial_mask :
          /\ initial_mask[p]
          /\ ~CurrentMask[p]
          /\ Cardinality(ComponentOf(p, TruePixels(initial_mask))) = args.min_particle_size - 1

FracLeq(x, y) == x[1] * y[2] <= y[1] * x[2]
FracEq(x, y) == x[1] * y[2] = y[1] * x[2]

\* the arguments of the running call with another sensitivity_max
WithSensitivityMax(s) == [args EXCEPT !.sensitivity_max = s]

\* C4 as stated: with all other parameters fixed, a call with a smaller
\* sensitivity_max never returns a larger area_percentage than the running
\* call returns.
C4_AreaNeverFallsWithSensitivityMax ==
    pc = "done" =>
        \A s \in 0 .. (args.sensitivity_max - 1) :
            FracLeq(AreaPercentageIn(fn, WithSensitivityMax(s)), ret[2])

\* C4: with max_particle_size unset and both values of sensitivity_max at
\* least sensitivity_min, the call with the smaller sensitivity_max never
\* returns a larger area_percentage than the call with the larger one.
C4_AreaNeverFallsWithoutUpperSizeBound ==
    (pc = "done" /\ args.max_particle_size = None) =>
        \A s \in args.sensitivity_min .. (args.sensitivity_max - 1) :
            FracLeq(AreaPercentageIn(fn, WithSensitivityMax(s)), ret[2])

C4_Witness ==
    /\ pc = "done"
    /\ args.max_particle_size = None
    /\ args.min_particle_size > 0
    /\ \E s \in args.sensitivity_min .. (args.sensitivity_max - 1) :
          /\ ~FracLeq(ret[2], AreaPercentageIn(fn, WithSensitivityMax(s)))
          /\ AreaPercentageIn(fn, WithSensitivityMax(s))[1] > 0

\* Scenario A at the size of the model: a call that returned, on a uniform
\* bright image (gray 200) with a single black square (gray 0) of one pixel,
\* with sensitivity_min = 0.0, sensitivity_max = 1.0, border_width = 0, no
\* size bounds and no selection.
Black == <<0, 0, 0>>

Square == {p \in SpotCells : args.image_input.image.px[p] = Black}

ScenarioA ==
    /\ pc = "done"
    /\ args.sensitivity_min = 0
    /\ args.sensitivity_max = 2
    /\ args.border_width = 0
    /\ args.min_particle_size = 0
    /\ args.max_particle_size = None
    /\ args.selection_box = None
    /\ Cardinality(Square) = 1
    /\ \A p \in DOMAIN args.image_input.image.px :
          p \notin Square => args.image_input.image.px[p] = Bright

\* C5 as stated: in scenario A the square is detected as exactly one
\* component: particle_count = 1, the marked pixels are the pixels of the
\* square and area_percentage is their share of the image.
C5_ScenarioADetectsTheSquare ==
    ScenarioA =>
        /\ ret[3] = 1
        /\ TruePixels(CurrentMask) = Square
        /\ FracEq(ret[2], <<100 * Cardinality(Square), ImgW * ImgH>>)

\* C5: in scenario A the black square lies below threshold_low (half the
\* local background): none of its pixels is marked, no other pixel is
\* marked either, particle_count = 0 and area_percentage = 0.
C5_ScenarioAMarksNothing ==
    ScenarioA =>
        /\ \A p \in Square : ~CurrentMask[p] /\ gray_array[p] * ThrDen(args.blur_radius) < threshold_low[p]
        /\ TruePixels(CurrentMask) = {}
        /\ ret[3] = 0
        /\ ret[2][1] = 0

C5_Witness ==
    /\ ScenarioA
    /\ fn = "adaptive"
    /\ Square = {<<1, 1>>}
    /\ threshold_low[<<1, 1>>] > 0
    /\ saved # None

\* the pixels of the processing region that the finished call has marked
MarkedPixels ==
    IF fn = "clustering" THEN {p \in DOMAIN labeled_array : labeled_array[p] > 0}
    ELSE {p \in DOMAIN mask : mask[p]}

\* C6: the returned area_percentage is 100 * (true pixels of the final
\* mask) / (pixels of the processing region), is 0 when the region has no
\* pixel, and lies between 0 and 100.
C6_AreaPercentageIsTheMarkedShare ==
    pc = "done" =>
        LET area       == Cardinality(MarkedPixels)
            total      == RegionW * RegionH
            percentage == ret[2]
        IN  /\ percentage[2] > 0
            /\ IF total = 0 THEN percentage[1] = 0
               ELSE percentage[1] * total = 100 * area * percentage[2]
            /\ 0 <= percentage[1]
            /\ percentage[1] <= 100 * percentage[2]

C6_Witness ==
    /\ pc = "done"
    /\ fn = "gradient"
    /\ args.selection_box # None
    /\ args.border_width = 0
    /\ Cardinality(MarkedPixels) = 1
    /\ RegionW * RegionH > 1
    /\ ret[2][1] * RegionW * RegionH = 100 * ret[2][2]

\* the arguments of the running call with the two sensitivities exchanged
WithSensitivitiesExchanged ==
    [args EXCEPT !.sensitivity_min = args.sensitivity_max,
                 !.sensitivity_max = args.sensitivity_min]

\* both sensitivities of the running call lie in [0, 1] (0 .. 2 halves)
SensitivitiesInRange ==
    /\ 0 <= args.sensitivity_min /\ args.sensitivity_min <= 2
    /\ 0 <= args.sensitivity_max /\ args.sensitivity_max <= 2

\* C7: a call with sensitivity_min = a > b = sensitivity_max, both in
\* [0, 1], returns the same mask, area_percentage and particle_count as the
\* call with sensitivity_min = b and sensitivity_max = a, and is never
\* rejected for its sensitivities.
C7_ReversedSensitivitiesGiveTheSameResult ==
    (pc # "idle" /\ SensitivitiesInRange /\ args.sensitivity_min > args.sensitivity_max) =>
        /\ err # "ValueError"
        /\ pc = "done" =>
              /\ CurrentMask = FinalMaskIn(fn, WithSensitivitiesExchanged)
              /\ FracEq(ret[2], AreaPercentageIn(fn, WithSensitivitiesExchanged))
              /\ ret[3] = ParticleCountIn(fn, WithSensitivitiesExchanged)

C7_Witness ==
    /\ pc = "done"
    /\ args.sensitivity_min = 2
    /\ args.sensitivity_max = 0
    /\ ret[3] = 2
    /\ ret[3] = ParticleCountIn(fn, WithSensitivitiesExchanged)
    /\ Cardinality(TruePixels(CurrentMask)) = 2

\* C8: a call with a sensitivity outside [0, 1] is only ever found failed
\* with the parameter error: the image input was not inspected or opened,
\* no array was computed, nothing was saved and nothing is returned,
\* whatever the image input is.
C8_InvalidSensitivityFailsBeforeAnyWork ==
    (pc # "idle" /\ ~SensitivitiesInRange) =>
        /\ pc = "raised"
        /\ err = "ValueError"
        /\ ~opened
        /\ locals = <<None, None, None, None, None, None, None, None, None, 0,
                      None, None, None>>
        /\ saved = None
        /\ ret = None

C8_Witness ==
    /\ pc = "raised"
    /\ err = "ValueError"
    /\ args.image_input.kind = "other"
    /\ args.sensitivity_min = 1
    /\ args.sensitivity_max = 3
    /\ fn = "clustering"
    /\ ~opened

\* the 4-connected components of a set M of pixels
ComponentsOf(M) == {ComponentOf(p, M) : p \in M}

\* C9: in the Flat and Gradient modes the returned particle_count is the
\* number of 4-connected components of the initial mask whose size is
\* within the bounds; without bounds, and whenever the bounds exclude no
\* component, it is the number of components of the initial mask.
C9_ParticleCountIsTheSurvivingComponents ==
    (pc = "done" /\ fn # "clustering") =>
        LET comps     == ComponentsOf(TruePixels(InitialMaskOf(args)))
            surviving == {C \in comps : WithinSizeBounds(Cardinality(C),
                                args.min_particle_size, args.max_particle_size)}
        IN  /\ ret[3] = Cardinality(surviving)
            /\ (args.min_particle_size = 0 /\ args.max_particle_size = None)
                  => ret[3] = Cardinality(comps)
            /\ surviving = comps => ret[3] = Cardinality(comps)

C9_Witness ==
    /\ pc = "done"
    /\ fn = "gradient"
    /\ args.min_particle_size = 2
    /\ args.border_width > 0
    /\ ret[3] = 1
    /\ Cardinality(ComponentsOf(TruePixels(InitialMaskOf(args)))) = 2

\* C10: after the colouring step, in every mode, every pixel of the
\* processing region that is not in the final mask (not labelled > 0 in the
\* Clustered mode) has the value it has in the loaded source image, and in
\* the Flat mode every pixel of the mask is exactly (255, 0, 0).
C10_ColouringChangesOnlyMarkedPixels ==
    pc = "colored" =>
        /\ DOMAIN result_array = DOMAIN img_array
        /\ \A p \in DOMAIN img_array :
              /\ p \notin MarkedPixels => result_array[p] = img_array[p]
              /\ (fn = "adaptive" /\ p \in MarkedPixels) => result_array[p] = <<255, 0, 0>>
        /\ \A p \in DOMAIN img_array :
              LET q == IF args.selection_box = None THEN p
                       ELSE <<p[1] + args.selection_box[2], p[2] + args.selection_box[1]>>
              IN  img_array[p] = img.px[q]

C10_Witness ==
    /\ pc = "colored"
    /\ fn = "adaptive"
    /\ args.border_width = 0
    /\ \E p \in MarkedPixels :
          result_array[p] = <<255, 0, 0>> /\ img_array[p] # result_array[p]
    /\ \E p \in DOMAIN img_array :
          p \notin MarkedPixels /\ img_array[p] = Black /\ result_array[p] = Black

\* gray values a pixel of the region could have
TestGrays == {0, 64, 100, 120, 130, 131, 140, 160, 199, 200}

\* r is 100 + intensity * 155 truncated, for the intensity
\* clamp((high - gray) / (high - low), 0, 1) of a band wider than 1e-5;
\* low, high and g are numerators over one denominator
IsRedOf(r, g, low, high) ==
    LET iden == high - low
        inum == high - g
        cnum == IF inum < 0 THEN 0 ELSE IF inum > iden THEN iden ELSE inum
    IN  /\ (r - 100) * iden <= 155 * cnum
        /\ 155 * cnum < (r - 100 + 1) * iden

\* C11: in the Gradient mode every pixel of the mask is painted (r, 0, 0)
\* with r = 100 + intensity * 155 truncated, r in 100 .. 255, and under the
\* thresholds of a masked pixel a darker gray value of the band never gets
\* a smaller r, a brighter one never a larger r.
C11_GradientRedFollowsDarkness ==
    (pc = "colored" /\ fn = "gradient") =>
        LET den == ThrDen(args.blur_radius)
        IN  \A p \in MarkedPixels :
                LET r    == result_array[p][1]
                    low  == threshold_low[p]
                    high == threshold_high[p]
                IN  /\ result_array[p] = <<r, 0, 0>>
                    /\ r \in 100 .. 255
                    /\ high - low > (den - 1) \div 100000     \* the band is no narrower than 1e-5
                    /\ IsRedOf(r, gray_array[p] * den, low, high)
                    /\ \A g \in TestGrays :
                          (low <= g * den /\ g * den < high) =>
                              /\ g <= gray_array[p] => RedChannel(g, low, high, den) >= r
                              /\ g >= gray_array[p] => RedChannel(g, low, high, den) <= r

C11_Witness ==
    /\ pc = "colored"
    /\ fn = "gradient"
    /\ \E p \in MarkedPixels :
          /\ result_array[p][1] \in 101 .. 254
          /\ \E g \in TestGrays :
                /\ threshold_low[p] <= g * ThrDen(args.blur_radius)
                /\ g * ThrDen(args.blur_radius) < threshold_high[p]
                /\ g < gray_array[p]
                /\ RedChannel(g, threshold_low[p], threshold_high[p],
                               ThrDen(args.blur_radius)) > result_array[p][1]

\* the Clustered call has cleared the border and no label is left
NoParticleLeft ==
    /\ pc = "bordered"
    /\ fn = "clustering"
    /\ \A p \in DOMAIN labeled_array : labeled_array[p] = 0

\* C12: when no label is left after size filter and border masking, the
\* next step of the Clustered call is its return, without an exception:
\* it returns the loaded image as it is, area_percentage 0 and
\* particle_count 0.
C12_NoParticleReturnsTheImage ==
    [][NoParticleLeft =>
          /\ pc' = "done"
          /\ err' = ""
          /\ ret'[1] = img
          /\ ret'[1].px = ToRGB(args.image_input.image).px
          /\ ret'[2][1] = 0
          /\ ret'[3] = 0]_vars

C12_Witness ==
    /\ pc = "done"
    /\ fn = "clustering"
    /\ \A p \in DOMAIN labeled_array : labeled_array[p] = 0
    /\ \E p \in DOMAIN initial_mask : initial_mask[p]
    /\ args.selection_box # None
    /\ ret[1].px = args.image_input.image.px
    /\ ret[3] = 0

\* C13: every call of the Clustered mode that returns, returns four
\* values: the annotated image, area_percentage, particle_count and a
\* cluster_count >= 0, which is 0 when no particle is left.
C13_ClusteredResultHasFourFields ==
    (pc = "done" /\ fn = "clustering") =>
        /\ Len(ret) = 4
        /\ ret[1].size = args.image_input.image.size
        /\ FracLeq(<<0, 1>>, ret[2])
        /\ ret[3] >= 0
        /\ ret[4] >= 0
        /\ ret[3] = 0 => ret[4] = 0

\* a Clustered call that found particles and returned
ClusteredDone == pc = "done" /\ fn = "clustering" /\ Len(ret) = 4

\* the pixels of the particle with label id
PixelsOf(id) == {p \in DOMAIN labeled_array : labeled_array[p] = id}

\* C14: in the Clustered mode the particles are the labels > 0 left in
\* labeled_array, each with one cluster id; cluster_count is the number of
\* distinct ids other than -1; the pixels of a noise particle are
\* (128, 128, 128), the pixels of a particle of cluster k >= 0 have the
\* colour of cluster k, the same for all particles of that cluster.
C14_ParticlesWearTheirClusterColour ==
    ClusteredDone =>
        LET ids == {cluster_labels[i] : i \in DOMAIN cluster_labels}
            n   == Cardinality(ids \ {-1})
        IN  /\ DOMAIN cluster_labels = DOMAIN particle_labels
            /\ {particle_labels[i] : i \in DOMAIN particle_labels}
                  = {labeled_array[p] : p \in DOMAIN labeled_array} \ {0}
            /\ \A i, j \in DOMAIN particle_labels :
                  particle_labels[i] = particle_labels[j] => i = j
            /\ ids \subseteq (-1) .. (n - 1)
            /\ ret[4] = n
            /\ ret[3] = Len(particle_labels)
            /\ \A i \in DOMAIN particle_labels :
                  \A p \in PixelsOf(particle_labels[i]) :
                      /\ cluster_labels[i] = -1 => result_array[p] = <<128, 128, 128>>
                      /\ cluster_labels[i] >= 0 =>
                            /\ result_array[p] = ClusterColor(cluster_labels[i], n)
                            /\ \A j \in DOMAIN particle_labels :
                                  cluster_labels[j] = cluster_labels[i] =>
                                      \A q \in PixelsOf(particle_labels[j]) :
                                          result_array[q] = result_array[p]

C14_Witness ==
    /\ ClusteredDone
    /\ Len(particle_labels) = 2
    /\ ret[4] = 2
    /\ cluster_labels[1] # cluster_labels[2]
    /\ \E p \in PixelsOf(particle_labels[1]), q \in PixelsOf(particle_labels[2]) :
          /\ result_array[p] # result_array[q]
          /\ result_array[p] # img_array[p]
          /\ result_array[q] # NoiseColor

\* sums of the rows and of the columns of a set of pixels
RowSum(P) == SumOver(P, [p \in P |-> p[1]])
ColSum(P) == SumOver(P, [p \in P |-> p[2]])

\* exactly two particles are left and their centroids are further apart
\* than cluster_eps (the squared distance, multiplied out)
TwoParticlesFarApart ==
    /\ ClusteredDone
    /\ Len(particle_labels) = 2
    /\ LET P  == PixelsOf(particle_labels[1])
           Q  == PixelsOf(particle_labels[2])
           np == Cardinality(P)
           nq == Cardinality(Q)
           dy == RowSum(P) * nq - RowSum(Q) * np
           dx == ColSum(P) * nq - ColSum(Q) * np
       IN  dy * dy + dx * dx > args.cluster_eps * args.cluster_eps * np * np * nq * nq

\* C15 as stated: two particles further apart than cluster_eps give
\* cluster_count = 2 and no noise particle, whatever cluster_min_samples is.
C15_TwoDistantParticlesAreTwoClusters ==
    TwoParticlesFarApart =>
        /\ ret[4] = 2
        /\ \A i \in DOMAIN cluster_labels : cluster_labels[i] # -1

\* C15: two particles further apart than cluster_eps are two clusters
\* without noise when cluster_min_samples <= 1; with cluster_min_samples
\* >= 2 (the default is 5) neither is a core point, both are noise and
\* cluster_count = 0.
C15_TwoDistantParticlesByMinSamples ==
    TwoParticlesFarApart =>
        IF args.cluster_min_samples <= 1
        THEN /\ ret[4] = 2
             /\ \A i \in DOMAIN cluster_labels : cluster_labels[i] # -1
             /\ cluster_labels[1] # cluster_labels[2]
        ELSE /\ ret[4] = 0
             /\ \A i \in DOMAIN cluster_labels : cluster_labels[i] = -1

C15_Witness ==
    /\ TwoParticlesFarApart
    /\ args.cluster_min_samples = 2
    /\ cluster_labels = <<-1, -1>>
    /\ ret[4] = 0
    /\ ret[3] = 2

\* the alpha of pixel p of the input image, 255 for a mode without alpha
AlphaOf(p) ==
    LET im == args.image_input.image
    IN  IF im.mode = "RGBA" THEN im.px[p][4]
        ELSE IF im.mode = "LA" THEN im.px[p][2]
        ELSE 255

\* C16: in the image that is thresholded every pixel that is fully
\* transparent in the input is pure white, whatever the mode of the input.
C16_TransparentPixelsBecomeWhite ==
    pc = "loaded" =>
        \A p \in DOMAIN img.px : AlphaOf(p) = 0 => img.px[p] = <<255, 255, 255>>

\* the files of the list whose pipeline call has ended
Completed == SubSeq(file_paths, 1, batch_i)

HasError(f) == f.error # ""
HasNoError(f) == f.error = ""

\* the reports and the outputs a sequence of files must have left, in order
ReportsOf(fs) ==
    LET failed == SelectSeq(fs, HasError)
    IN [k \in DOMAIN failed |-> <<failed[k], failed[k].error>>]

OutputsOf(fs) ==
    LET done == SelectSeq(fs, HasNoError)
    IN [k \in DOMAIN done |-> [dir |-> output_dir,
                                name |-> done[k].name \o <<"_marked">>,
                                ext |-> done[k].ext]]

\* C17: in a batch run every failure of an image is caught and reported with
\* its file, the batch handler never raises, the images are handed to the
\* pipeline in list order, each at most once, and a run the user did not
\* cancel processes every image of the list, those after a failure included.
C17_BatchIsolatesFailures ==
    /\ batch_pc # "raised"
    /\ batch_err = ""
    /\ processed = SubSeq(file_paths, 1, Len(processed))
    /\ Len(processed) = IF batch_pc = "call" THEN batch_i + 1 ELSE batch_i
    /\ printed = ReportsOf(Completed)
    /\ written = OutputsOf(Completed)
    /\ batch_pc = "finished" /\ ~canceled => processed = file_paths

C17_Witness ==
    /\ batch_pc = "finished"
    /\ ~canceled
    /\ Len(file_paths) = 3
    /\ file_paths[1].error # ""
    /\ file_paths[2].error # ""
    /\ file_paths[3].error = ""
    /\ processed = file_paths
    /\ Len(printed) = 2
    /\ written = <<OutputPath(file_paths[3])>>

\* the file of the call in flight
InFlight == processed[Len(processed)]

\* C18: a click on Cancel acts only at the head of an iteration: there the
\* loop is left, no further image is handed to the pipeline and no further
\* output is written, and nothing follows but the return of the handler; a
\* call in flight when the click comes ends as it would have without the
\* click, and the output of a call that succeeds is written.
C18_CancelActsBetweenImages ==
    [][/\ batch_pc = "loop" /\ canceled =>
            /\ batch_pc' = "finished"
            /\ processed' = processed
            /\ written' = written
       /\ batch_pc = "finished" =>
            /\ batch_pc' = "idle"
            /\ processed' = <<>>
            /\ written' = <<>>
       /\ batch_pc = "call" =>
            \/ /\ canceled' /\ ~canceled
               /\ UNCHANGED <<batch_pc, batch_i, processed, written, printed>>
            \/ /\ batch_pc' = "loop"
               /\ batch_i' = batch_i + 1
               /\ canceled' = canceled
               /\ processed' = processed
               /\ written' = IF InFlight.error = ""
                             THEN Append(written, [dir |-> output_dir,
                                                   name |-> InFlight.name \o <<"_marked">>,
                                                   ext |-> InFlight.ext])
                             ELSE written
               /\ printed' = IF InFlight.error = ""
                             THEN printed
                             ELSE Append(printed, <<InFlight, InFlight.error>>)
      ]_batch_vars

C18_Witness ==
    /\ batch_pc = "finished"
    /\ canceled
    /\ Len(file_paths) = 3
    /\ batch_i = 1
    /\ processed = <<file_paths[1]>>
    /\ written = <<OutputPath(file_paths[1])>>
    /\ file_paths[2].error = ""

\* C19: every box that process_image stores in last_selection_box, and hands
\* to the pipeline, has 0 <= left < right <= image width and
\* 0 <= top < bottom <= image height.
C19_SelectionBoxLiesInTheImage ==
    pil_image # None /\ last_selection_box # None =>
        /\ 0 <= last_selection_box[1]
        /\ last_selection_box[1] < last_selection_box[3]
        /\ last_selection_box[3] <= pil_image[1]
        /\ 0 <= last_selection_box[2]
        /\ last_selection_box[2] < last_selection_box[4]
        /\ last_selection_box[4] <= pil_image[2]

\* the library treats an array without elements the same way in both calls
SameBuild == (err = "Exception") <=> (earlier.err = "Exception")

C21_FlatAndClusteredAgree ==
    pc = "done" /\ fn = "adaptive" =>
        /\ ret[3] = ParticleCountIn("clustering", args)
        /\ FracEq(ret[2], AreaPercentageIn("clustering", args))

\* C22: once clear_selection or load_image has cleared the selection,
\* last_selection_box stays None and no result is produced before the user
\* starts a new rubber band; a parameter change alone processes nothing.
C22_ClearedSelectionStaysCleared ==
    ~drawn => last_selection_box = None /\ last_result_image = None

\* C23: after a batch that was not canceled and in which no image failed,
\* the output directory holds one result per listed input, each under the
\* name of its input followed by _marked and the input's extension, no two
\* inputs share a result path, and no result was written over a listed
\* input that was still to be processed.
C23_BatchOutputsAreDistinct ==
    batch_pc = "finished" /\ ~canceled /\ printed = <<>> /\ batch_err = "" =>
        /\ Len(written) = Len(file_paths)
        /\ \A k \in DOMAIN written :
              written[k] = [dir |-> output_dir,
                            name |-> file_paths[k].name \o <<"_marked">>,
                            ext |-> file_paths[k].ext]
        /\ \A j, k \in DOMAIN written : j # k => written[j] # written[k]
        /\ \A j, k \in DOMAIN written :
              j < k => written[j] # [dir |-> file_paths[k].dir,
                                     name |-> file_paths[k].name,
                                     ext |-> file_paths[k].ext]

\* C24: after any sequence of load_image, clear_selection, process_image
\* (returning early, succeeding or raising in the pipeline) and save_image,
\* the Save Result button and the Clear Selection button are enabled exactly
\* when last_result_image is set, and save_image writes no file while
\* last_result_image is None.
C24_ButtonsFollowTheResult ==
    /\ [](save_button = (last_result_image # None))
    /\ [](clear_button = (last_result_image # None))
    /\ [][last_result_image = None => result_files' = result_files]_select_vars

\* a result was saved and cleared, and a later process_image stored a box
\* and raised in the pipeline
C24_Witness ==
    /\ result_files # {}
    /\ last_selection_box # None
    /\ last_result_image = None
    /\ ~save_button
    /\ ~clear_button

====
